---------------------------- MODULE Spec2Model ----------------------------
(***************************************************************************)
(* Model of the reliability core of the ai-hedge-fund repository:          *)
(*   - src/utils/llm.py    call_llm, create_default_response,              *)
(*                         extract_json_from_deepseek_response             *)
(*   - src/llm/models.py   get_model_info, get_model, LLMModel.is_deepseek *)
(*   - src/utils/progress.py  AgentProgress.update_status                  *)
(*   - src/data/cache.py   Cache._merge_data, the set_* and get_* methods  *)
(*   - src/agents/warren_buffett.py  warren_buffett_agent                  *)
(*   - src/tools/api.py    the five fetch functions                        *)
(*   - src/utils/display.py, src/utils/analysts.py  the analyst table      *)
(*                                                                         *)
(* The specifications share the module's variables:                        *)
(*   SpecLLM    one call_llm invocation, inputs drawn in the initial state *)
(*   SpecLLMCallback  the same, with a status callback that may raise      *)
(*   SpecCache  sequences of set_* and get_* calls on the Cache            *)
(*   SpecMerge  one call of Cache._merge_data, arguments drawn in the      *)
(*              initial state                                              *)
(*   SpecDefault  one call of create_default_response on a drawn schema    *)
(*   SpecExtract  one non-structured attempt on a drawn response text      *)
(*   SpecAgent  one run of warren_buffett_agent over a ticker list         *)
(*   SpecFetch  one call of a fetch function on a drawn cache              *)
(*   SpecHandles  get_cache and set/get calls through the handles          *)
(*   SpecRace   two unsynchronised set calls on one kind and ticker        *)
(*   SpecTable  the analyst-signals table of print_trading_output          *)
(*   SpecProgress  sequences of AgentProgress.update_status calls          *)
(***************************************************************************)
EXTENDS Integers, Sequences, FiniteSets, TLC

VARIABLES
    \* ---- call_llm: arguments and environment of one invocation ----
    model_name,        \* argument model_name
    model_provider,    \* argument model_provider
    api_key,           \* TRUE iff os.getenv(<provider>_API_KEY) is set
    pydantic_model,    \* argument pydantic_model (name of the target schema)
    agent_name,        \* argument agent_name ("None" for None)
    max_retries,       \* argument max_retries
    default_factory,   \* argument default_factory: "None", "returns", "raises"
    status_callback,   \* progress.update_status: "returns" or "raises"
    \* ---- call_llm: control state ----
    pc,                \* position of the invocation
    llm,               \* the local llm: "unset", "structured", "raw", "None"
    attempt,           \* number of completed iterations of the retry loop
    result,            \* value returned by call_llm, once it has returned
    \* ---- call_llm: history ----
    invLog,            \* one entry per execution of llm.invoke (line 70)
    statusLog,         \* attempt numbers reported through progress.update_status
    agent_status,      \* AgentProgress.agent_status
    \* ---- Cache ----
    cache,             \* the five dictionaries of the Cache singleton
    lastSet,           \* the last set_* call: arguments, pre-state, outcome
    nSets,             \* number of set_* calls performed
    lastGet,           \* the last get_* call: arguments and returned value
    nGets,             \* number of get_* calls performed
    setDone,           \* the <<kind, ticker>> pairs a set_* call was made for
    \* ---- one call of Cache._merge_data ----
    m_existing,        \* argument existing (a list, or None)
    m_new_data,        \* argument new_data
    m_key_field,       \* argument key_field
    m_merged,          \* what the call returned, or that it raised
    m_pc,              \* "idle", "call", "done"
    \* ---- one call of create_default_response ----
    d_schema,          \* argument model_class (name of the schema)
    d_fields,          \* the fields of the schema named "DrawnSchema"
    d_default_values,  \* the local dictionary default_values at line 137
    d_result,          \* what the call returned, or that it raised
    d_pc,              \* "idle", "call", "done"
    \* ---- one attempt of call_llm on a raw (non-structured) response ----
    x_content,         \* result.content, a sequence of tokens
    x_parsed,          \* what extract_json_from_deepseek_response returned
    x_outcome,         \* how the attempt ended
    x_pc,              \* "idle", "call", "done"
    \* ---- warren_buffett_agent ----
    wb_tickers,        \* state["data"]["tickers"]
    wb_i,              \* position of the loop over the tickers (1-based)
    wb_pc,             \* "idle", "analyze", "llm", "done", "raised"
    wb_line_items,     \* financial_line_items of the ticker being analysed
    buffett_analysis,  \* the local dictionary buffett_analysis
    analyst_signals,   \* state["data"]["analyst_signals"]["warren_buffett_agent"]
    \* ---- one call of a fetch function of src/tools/api.py ----
    f_fn,              \* the function called
    f_ticker,          \* argument ticker
    f_start,           \* argument start_date (0: None, or not a parameter)
    f_end,             \* argument end_date
    f_limit,           \* argument limit
    f_pc,              \* "idle", "call", "request", "returned", "raised"
    f_cur_end,         \* the local current_end_date of a pagination loop
    f_all,             \* the records obtained from the API so far
    f_status,          \* status code of the last response (0: none yet)
    f_events,          \* cache reads, network requests and cache writes
    f_result,          \* the list the call returned
    f_cache0,          \* the cache as it was when the call began
    heap,              \* the Cache instances that exist: instance id -> its buckets
    cache_global,      \* the instance the module-level name _cache is bound to
    handles,           \* the instances returned by the calls of get_cache so far
    h_written,         \* (kind, ticker) -> the bucket as the last set through a handle left it
    h_writer,          \* index of the handle the last returning set went through
    h_last,            \* the last get through a handle: handle, kind, ticker, result
    h_ops,             \* number of set and get calls made through handles
    \* ---- two unsynchronised set calls on one kind and ticker ----
    r_kind,            \* the kind both calls are for
    r_bucket,          \* the shared bucket self._<kind>_cache[ticker]
    r_data,            \* caller -> the record list it passes
    r_pc,              \* caller -> "idle", "read", "write", "done", "raised"
    r_merged,          \* caller -> what its _merge_data returned
    r_overlap,         \* a caller read the bucket while the other was between read and write
    \* ---- the analyst-signals table of print_trading_output, one ticker ----
    t_signals,         \* result["analyst_signals"] in iteration order: agent, has the ticker
    t_i,               \* position of the loop over the mapping (1-based)
    table_data,        \* the local list table_data
    t_pc,              \* "idle", "rows", "printed"
    \* ---- calls of AgentProgress.update_status ----
    p_last,            \* the last call: agent, ticker, status, agent_status before it
    p_calls            \* number of calls made

llmVars == <<model_name, model_provider, api_key, pydantic_model, agent_name,
             max_retries, default_factory, status_callback, pc, llm, attempt, result, invLog,
             statusLog, agent_status>>
cacheVars == <<cache, lastSet, nSets, lastGet, nGets, setDone>>
mergeVars == <<m_existing, m_new_data, m_key_field, m_merged, m_pc>>
defaultVars == <<d_schema, d_fields, d_default_values, d_result, d_pc>>
extractVars == <<x_content, x_parsed, x_outcome, x_pc>>
agentVars == <<wb_tickers, wb_i, wb_pc, wb_line_items, buffett_analysis, analyst_signals>>
fetchVars == <<f_fn, f_ticker, f_start, f_end, f_limit, f_pc, f_cur_end, f_all, f_status, f_events, f_result, f_cache0>>
handleVars == <<heap, cache_global, handles, h_written, h_writer, h_last, h_ops>>
raceVars == <<r_kind, r_bucket, r_data, r_pc, r_merged, r_overlap>>
tableVars == <<t_signals, t_i, table_data, t_pc>>
progressVars == <<p_last, p_calls>>
vars == <<model_name, model_provider, api_key, pydantic_model, agent_name,
          max_retries, default_factory, status_callback, pc, llm, attempt, result, invLog,
          statusLog, agent_status,
          cache, lastSet, nSets, lastGet, nGets, setDone,
          m_existing, m_new_data, m_key_field, m_merged, m_pc,
          d_schema, d_fields, d_default_values, d_result, d_pc,
          x_content, x_parsed, x_outcome, x_pc,
          wb_tickers, wb_i, wb_pc, wb_line_items, buffett_analysis, analyst_signals,
          f_fn, f_ticker, f_start, f_end, f_limit, f_pc, f_cur_end, f_all, f_status, f_events, f_result, f_cache0,
          heap, cache_global, handles, h_written, h_writer, h_last, h_ops,
          r_kind, r_bucket, r_data, r_pc, r_merged, r_overlap,
          t_signals, t_i, table_data, t_pc,
          p_last, p_calls>>

-----------------------------------------------------------------------------
(* Bounds of the model *)

MaxRetries == 3
MaxLen == 2
MaxSets == 2
MaxFields == 2
MaxTokens == 4
MaxTickers == 2
MaxPages == 2

\* src/utils/llm.py line 23: max_retries: int = 3
DefaultMaxRetries == 3

-----------------------------------------------------------------------------
(* Values, schemas and instances (pydantic)                                *)

\* A Python value: a type tag and a printed form.
Val(t, v) == [t |-> t, v |-> v]

NoArgs == << >>

Ann(kind, args) == [kind |-> kind, args |-> args]

\* src/agents/warren_buffett.py: class WarrenBuffettSignal
WarrenBuffettSignal ==
    << [name |-> "signal",
        ann  |-> Ann("Literal", <<"bullish", "bearish", "neutral">>)],
       [name |-> "confidence", ann |-> Ann("float", NoArgs)],
       [name |-> "reasoning",  ann |-> Ann("str", NoArgs)] >>

\* A target schema with a boolean field next to a string field.
FlaggedSignal ==
    << [name |-> "flag",      ann |-> Ann("bool", NoArgs)],
       [name |-> "reasoning", ann |-> Ann("str", NoArgs)] >>

SchemaNames == {"WarrenBuffettSignal", "FlaggedSignal"}

\* "DrawnSchema" names the model class whose fields are in d_fields.
model_fields(schema) ==
    CASE schema = "WarrenBuffettSignal" -> WarrenBuffettSignal
      [] schema = "FlaggedSignal"       -> FlaggedSignal
      [] OTHER                          -> d_fields

FieldNames(schema) ==
    {model_fields(schema)[i].name : i \in 1..Len(model_fields(schema))}

AnnOf(schema, f) ==
    LET fs == model_fields(schema)
        i  == CHOOSE j \in 1..Len(fs) : fs[j].name = f
    IN  fs[i].ann

\* pydantic validation of one value against a field annotation
ValueConforms(ann, val) ==
    CASE ann.kind = "str"     -> val.t = "str"
      [] ann.kind = "float"   -> val.t \in {"float", "int"}
      [] ann.kind = "int"     -> val.t = "int"
      [] ann.kind = "bool"    -> val.t = "bool"
      [] ann.kind = "Dict"    -> val.t = "dict"
      [] ann.kind = "dict"    -> val.t = "dict"
      [] ann.kind = "List"    -> val.t = "list"
      [] ann.kind = "Optional" -> val.t \in {ann.args[1], "NoneType"}
      [] ann.kind = "Literal" ->
            /\ val.t = "str"
            /\ \E i \in 1..Len(ann.args) : ann.args[i] = val.v
      [] OTHER -> FALSE

\* pydantic: model_class(**kwargs) succeeds iff every declared field is
\* given a conforming value (no field of the schemas has a default).
Validates(schema, kwargs) ==
    /\ FieldNames(schema) \subseteq DOMAIN kwargs
    /\ \A f \in FieldNames(schema) : ValueConforms(AnnOf(schema, f), kwargs[f])

\* the instance built from validated keyword arguments
Construct(schema, kwargs) == [f \in FieldNames(schema) |-> kwargs[f]]


-----------------------------------------------------------------------------
(* src/utils/llm.py: create_default_response                               *)

\* the per-field default of lines 121-134. An annotation has __origin__
\* dict when it is typing.Dict or a parameterised dict ("Dict"), not when
\* it is the bare class dict ("dict"). __args__[0] is the first allowed
\* value of a Literal, and a type object for Optional[T] and List[T].
default_value(ann) ==
    CASE ann.kind = "str"   -> Val("str", "Error in analysis, using default")
      [] ann.kind = "float" -> Val("float", "0.0")
      [] ann.kind = "int"   -> Val("int", "0")
      [] ann.kind = "Dict"  -> Val("dict", "{}")
      [] OTHER ->
            IF Len(ann.args) > 0
            THEN Val(IF ann.kind = "Literal" THEN "str" ELSE "type",
                     ann.args[1])
            ELSE Val("NoneType", "None")

default_values(schema) ==
    [f \in FieldNames(schema) |-> default_value(AnnOf(schema, f))]

\* line 137: model_class(**default_values) raises a ValidationError when a
\* default does not conform to its field.
create_default_response(schema) ==
    IF Validates(schema, default_values(schema))
    THEN [raised |-> FALSE, val |-> Construct(schema, default_values(schema))]
    ELSE [raised |-> TRUE,  val |-> default_values(schema)]

-----------------------------------------------------------------------------
(* src/utils/llm.py: extract_json_from_deepseek_response                   *)
(* A response text is a sequence of tokens: the fences (<fence> stands for *)
(* three backquotes), newlines, prose and candidate JSON documents.        *)

OpenFence  == "<fence>json"
PlainFence == "<fence>"
Newline    == "\n"

\* what json.loads yields on the text of one token ("error": it raises)
ParsedOk == [signal     |-> Val("str", "bullish"),
             confidence |-> Val("float", "80.0"),
             reasoning  |-> Val("str", "x")]
ParsedBad == [signal    |-> Val("str", "buy")]
ParsedEmpty == [f \in {} |-> Val("str", "")]

json_loads(text) ==
    IF Len(text) /= 1 THEN [tag |-> "error"]
    ELSE CASE text[1] = "{ok}"  -> [tag |-> "dict", d |-> ParsedOk]
           [] text[1] = "{bad}" -> [tag |-> "dict", d |-> ParsedBad]
           [] text[1] = "{}"    -> [tag |-> "dict", d |-> ParsedEmpty]
           [] text[1] = "[1]"   -> [tag |-> "list"]
           [] text[1] = "null"  -> [tag |-> "None"]
           [] OTHER             -> [tag |-> "error"]

\* a search that answers the last occurrence (str.rfind)
find_last(s, toks) ==
    IF \E i \in 1..Len(s) : s[i] \in toks
    THEN CHOOSE i \in 1..Len(s) :
            /\ s[i] \in toks
            /\ \A j \in (i+1)..Len(s) : s[j] \notin toks
    ELSE 0

\* str.find: index of the first token of `toks` in `s` (0 if there is none)
find(s, toks) ==
    IF \E i \in 1..Len(s) : s[i] \in toks
    THEN CHOOSE i \in 1..Len(s) :
            /\ s[i] \in toks
            /\ \A j \in 1..(i-1) : s[j] \notin toks
    ELSE 0

RECURSIVE lstrip(_)
lstrip(s) ==
    IF s /= << >> /\ Head(s) = Newline THEN lstrip(Tail(s)) ELSE s

RECURSIVE rstrip(_)
rstrip(s) ==
    IF s /= << >> /\ s[Len(s)] = Newline
    THEN rstrip(SubSeq(s, 1, Len(s) - 1))
    ELSE s

strip(s) == rstrip(lstrip(s))

\* lines 152-171. The opening fence (three backquotes and the word json)
\* begins with the three backquotes of a plain fence, so the search for the
\* closing fence stops at either kind of fence.
extract_json_from_deepseek_response(content) ==
    LET json_start == find(content, {OpenFence})
        json_text  == SubSeq(content, json_start + 1, Len(content))
        json_end   == find(json_text, {PlainFence, OpenFence})
        loaded     == json_loads(strip(SubSeq(json_text, 1, json_end - 1)))
    IN  IF json_start = 0 THEN [tag |-> "None"]
        ELSE IF json_end = 0 THEN [tag |-> "None"]
        ELSE IF loaded.tag = "error" THEN [tag |-> "None"]
        ELSE loaded

\* Python truth value of what the extraction returned (line 75)
truthy(parsed) ==
    \/ parsed.tag = "list"
    \/ parsed.tag = "dict" /\ DOMAIN parsed.d /= {}

-----------------------------------------------------------------------------
(* src/llm/models.py                                                       *)

\* AVAILABLE_MODELS (lines 50-107), the entries the model draws from
AVAILABLE_MODELS == {"gpt-4o", "deepseek-chat"}

ModelNames == {"gpt-4o", "deepseek-chat", "my-model", "deepseek-coder"}

\* the providers get_model knows (lines 129-179), and one it does not
KnownProviders == {"OpenAI", "DeepSeek"}
Providers == KnownProviders \cup {"Other"}

\* get_model_info, lines 110-126: the descriptor, or None
get_model_info(name) ==
    IF name \in AVAILABLE_MODELS THEN [model_name |-> name] ELSE [model_name |-> "None"]

\* LLMModel.is_deepseek, lines 35-42, on the model names of ModelNames
startswith_deepseek(name) == name \in {"deepseek-chat", "deepseek-coder"}

\* `model_info and model_info.is_deepseek()` (lines 60 and 73)
is_deepseek(name) ==
    /\ get_model_info(name).model_name /= "None"
    /\ startswith_deepseek(get_model_info(name).model_name)

\* get_model, lines 129-179: a client, a ValueError when the provider's API
\* key is not set, or None when no branch matches the provider
get_model(name, provider, key) ==
    IF provider \in KnownProviders
    THEN (IF key THEN "client" ELSE "ValueError")
    ELSE "None"


-----------------------------------------------------------------------------
(* src/data/cache.py: Cache                                                *)

Kinds == {"prices", "financial_metrics", "line_items", "insider_trades",
          "company_news"}

\* the key_field argument of each set_* method (lines 86, 115, 144, 173, 203)
\* one identity field ("time") for every kind
key_field_time_everywhere(kind) == "time"

key_field_of(kind) ==
    CASE kind = "prices"            -> "time"
      [] kind = "financial_metrics" -> "report_period"
      [] kind = "line_items"        -> "report_period"
      [] kind = "insider_trades"    -> "filing_date"
      [] kind = "company_news"      -> "date"

Tickers == {"AAPL", "aapl"}

\* A cached record is a dict. The records of the model have a payload field
\* "v" and, unless the identity field is missing, the field `key`.
Item(key, id, v) == [f \in {key, "v"} |-> IF f = "v" THEN v ELSE id]
ItemWithoutKey(v) == [f \in {"v"} |-> v]

\* records a caller can hand to the set_* method of a kind: two payloads
\* under one identity value, a second identity value, and a record that
\* lacks the identity field
ItemsOf(key) ==
    {Item(key, 1, 1), Item(key, 1, 2), Item(key, 2, 1), ItemWithoutKey(1)}

RECURSIVE ListsUpTo(_, _)
ListsUpTo(S, n) ==
    IF n = 0 THEN {<< >>}
    ELSE ListsUpTo(S, n - 1) \cup
         {Append(l, x) : l \in {m \in ListsUpTo(S, n - 1) : Len(m) = n - 1},
                         x \in S}

\* Cache.__init__, lines 14-25: five empty dictionaries
EmptyDict == [t \in {} |-> << >>]
EmptyCache == [k \in Kinds |-> EmptyDict]

\* dict.get(ticker) (lines 70, 84, 99, ...): the stored list, or None
Absent == [present |-> FALSE, items |-> << >>]

\* a lookup that answers an empty list for a ticker that has no entry
dict_get_or_empty(d, ticker) ==
    IF ticker \in DOMAIN d
    THEN [present |-> TRUE, items |-> d[ticker]]
    ELSE [present |-> TRUE, items |-> << >>]

dict_get(d, ticker) ==
    IF ticker \in DOMAIN d
    THEN [present |-> TRUE, items |-> d[ticker]]
    ELSE Absent

\* a merge that appends every new item, whether its key is stored or not
is_new_always(item, keys, key_field) == TRUE

\* a merge that takes no incoming item for new
is_new_never(item, keys, key_field) == FALSE

\* line 56: item[key_field] not in existing_keys
is_new(item, keys, key_field) == item[key_field] \notin keys

\* a merge that puts the new items in front of the stored ones
extend_in_front(merged, items) == items \o merged

\* line 56: merged.extend(...)
extend(merged, items) == merged \o items

\* a merge in which the incoming list replaces the stored one
merge_data_replace(existing, new_data, key_field) ==
    [raised |-> FALSE, val |-> new_data]

\* lines 27-58. "raised": a KeyError from item[key_field] (lines 49, 56)
\* on an item that lacks the key field.
merge_data(existing, new_data, key_field) ==
    IF ~existing.present \/ existing.items = << >>
    THEN [raised |-> FALSE, val |-> new_data]
    ELSE IF \E i \in 1..Len(existing.items) :
                key_field \notin DOMAIN existing.items[i]
    THEN [raised |-> TRUE, val |-> << >>]
    ELSE IF \E i \in 1..Len(new_data) : key_field \notin DOMAIN new_data[i]
    THEN [raised |-> TRUE, val |-> << >>]
    ELSE LET existing_keys == {existing.items[i][key_field] :
                                  i \in 1..Len(existing.items)}
             fresh == SelectSeq(new_data,
                         LAMBDA item : is_new(item, existing_keys, key_field))
         IN  [raised |-> FALSE, val |-> extend(existing.items, fresh)]

NoSet == [kind |-> "none", ticker |-> "", data |-> << >>,
          before |-> Absent, raised |-> FALSE, repeat |-> FALSE]

\* set_prices, set_financial_metrics, set_line_items, set_insider_trades,
\* set_company_news: read the bucket, merge, store the result
\* a set that stores the merged list under every spelling of the ticker
cache_set_any_case(kind, ticker, data) ==
    LET existing == dict_get(cache[kind], ticker)
        m == merge_data(existing, data, key_field_of(kind))
    IN  /\ nSets + nGets < MaxSets
        /\ nSets' = nSets + 1
        /\ setDone' = setDone \cup {<<kind, ticker>>}
        /\ UNCHANGED <<lastGet, nGets>>
        /\ lastSet' = [kind |-> kind, ticker |-> ticker, data |-> data,
                       before |-> existing, raised |-> m.raised,
                       repeat |-> /\ lastSet.kind = kind
                                  /\ lastSet.ticker = ticker
                                  /\ lastSet.data = data]
        /\ cache' = IF m.raised THEN cache
                    ELSE [cache EXCEPT ![kind] =
                            [t \in DOMAIN cache[kind] \cup Tickers |-> m.val]]

cache_set(kind, ticker, data) ==
    LET existing == dict_get(cache[kind], ticker)
        m == merge_data(existing, data, key_field_of(kind))
    IN  /\ nSets + nGets < MaxSets
        /\ nSets' = nSets + 1
        /\ setDone' = setDone \cup {<<kind, ticker>>}
        /\ UNCHANGED <<lastGet, nGets>>
        /\ lastSet' = [kind |-> kind, ticker |-> ticker, data |-> data,
                       before |-> existing, raised |-> m.raised,
                       repeat |-> /\ lastSet.kind = kind
                                  /\ lastSet.ticker = ticker
                                  /\ lastSet.data = data]
        /\ cache' = IF m.raised THEN cache
                    ELSE [cache EXCEPT ![kind] =
                            [t \in DOMAIN cache[kind] \cup {ticker} |->
                                IF t = ticker THEN m.val ELSE cache[kind][t]]]

\* a set_* call made from outside the fetch layer
set(kind, ticker, data) ==
    /\ cache_set(kind, ticker, data)
    /\ UNCHANGED <<llmVars, mergeVars, defaultVars, extractVars, agentVars,
                   fetchVars, handleVars, raceVars, tableVars, progressVars>>

\* the record lists the model hands to a set_* method: the empty list,
\* single records (one identity value under two payloads, a second identity
\* value), one identity value twice (with different payloads, and the same
\* record twice), two identity values, and lists with a record that lacks
\* the identity field
DataLists(kind) ==
    LET key == key_field_of(kind)
        A1  == Item(key, 1, 1)
        A2  == Item(key, 1, 2)
        B1  == Item(key, 2, 1)
        M   == ItemWithoutKey(1)
    IN  {<< >>, <<A1>>, <<A2>>, <<B1>>, <<A1, A2>>, <<B1, B1>>, <<A2, B1>>,
         <<M>>, <<B1, M>>}

\* lines 72-87
set_prices ==
    \E t \in Tickers, data \in DataLists("prices") : set("prices", t, data)

\* lines 101-116
set_financial_metrics ==
    \E t \in Tickers, data \in DataLists("financial_metrics") :
        set("financial_metrics", t, data)

\* lines 130-145
set_line_items ==
    \E t \in Tickers, data \in DataLists("line_items") :
        set("line_items", t, data)

\* lines 159-175
set_insider_trades ==
    \E t \in Tickers, data \in DataLists("insider_trades") :
        set("insider_trades", t, data)

\* lines 189-204
set_company_news ==
    \E t \in Tickers, data \in DataLists("company_news") :
        set("company_news", t, data)

NoGet == [kind |-> "none", ticker |-> "", result |-> Absent]

\* get_prices, get_financial_metrics, get_line_items, get_insider_trades,
\* get_company_news: return self._<kind>_cache.get(ticker)
cache_get(kind, ticker) ==
    /\ nSets + nGets < MaxSets
    /\ nGets' = nGets + 1
    /\ lastGet' = [kind |-> kind, ticker |-> ticker,
                   result |-> dict_get(cache[kind], ticker)]
    /\ UNCHANGED <<cache, lastSet, nSets, setDone>>

\* a get_* call made from outside the fetch layer
get(kind, ticker) ==
    /\ cache_get(kind, ticker)
    /\ UNCHANGED <<llmVars, mergeVars, defaultVars, extractVars, agentVars,
                   fetchVars, handleVars, raceVars, tableVars, progressVars>>

get_prices == \E t \in Tickers : get("prices", t)
get_financial_metrics == \E t \in Tickers : get("financial_metrics", t)
get_line_items == \E t \in Tickers : get("line_items", t)
get_insider_trades == \E t \in Tickers : get("insider_trades", t)
get_company_news == \E t \in Tickers : get("company_news", t)

InitCacheIdle ==
    /\ cache = EmptyCache
    /\ lastSet = NoSet
    /\ nSets = 0
    /\ lastGet = NoGet
    /\ nGets = 0
    /\ setDone = {}

\* ---- one call of _merge_data on arguments drawn from bounded sets ----

KeyFields == {key_field_of(k) : k \in Kinds}

NoMerge == [raised |-> FALSE, val |-> << >>]

InitMergeIdle ==
    /\ m_existing = Absent
    /\ m_new_data = << >>
    /\ m_key_field = "time"
    /\ m_merged = NoMerge
    /\ m_pc = "idle"

\* Every list is a possible bucket content: a set_* call on a ticker that
\* has no bucket stores its argument as it is (line 45).
MergeArguments ==
    /\ m_key_field \in KeyFields
    /\ m_existing \in {Absent} \cup
          {[present |-> TRUE, items |-> l] :
              l \in ListsUpTo(ItemsOf(m_key_field), MaxLen)}
    /\ m_new_data \in ListsUpTo(ItemsOf(m_key_field), MaxLen)
    /\ m_merged = NoMerge
    /\ m_pc = "call"

call_merge_data ==
    /\ m_pc = "call"
    /\ m_merged' = merge_data(m_existing, m_new_data, m_key_field)
    /\ m_pc' = "done"
    /\ UNCHANGED <<m_existing, m_new_data, m_key_field>>
    /\ UNCHANGED <<llmVars, cacheVars, defaultVars, extractVars, agentVars,
                   fetchVars, handleVars, raceVars, tableVars, progressVars>>

-----------------------------------------------------------------------------
(* src/utils/progress.py: AgentProgress.update_status                      *)

NoAgents == [a \in {} |-> [status |-> "", ticker |-> "None"]]

\* Python truth value of an Optional[str] argument
truthy_str(x) == x /= "None" /\ x /= ""

\* lines 62-87 (the display refresh of line 87 changes no state of the model)
\* update_status that stores the ticker argument whatever it is
update_status_any_ticker(st, agent, ticker, status) ==
    LET st1 == [a \in DOMAIN st \cup {agent} |->
                  IF a = agent
                  THEN [status |-> IF agent \in DOMAIN st
                                   THEN st[agent].status ELSE "",
                        ticker |-> ticker]
                  ELSE st[a]]
    IN  IF status /= "" THEN [st1 EXCEPT ![agent].status = status] ELSE st1

update_status(st, agent, ticker, status) ==
    LET st1 == IF agent \in DOMAIN st
               THEN st
               ELSE [a \in DOMAIN st \cup {agent} |->
                        IF a = agent THEN [status |-> "", ticker |-> "None"]
                        ELSE st[a]]
        st2 == IF truthy_str(ticker)
               THEN [st1 EXCEPT ![agent].ticker = ticker] ELSE st1
    IN  IF status /= "" THEN [st2 EXCEPT ![agent].status = status] ELSE st2

\* src/utils/llm.py line 85: f"Error - retry {attempt + 1}/{max_retries}"
retry_message(k, n) == "Error - retry " \o ToString(k) \o "/" \o ToString(n)

-----------------------------------------------------------------------------
(* The backend: what llm.invoke(prompt) can do in one attempt              *)

Contents ==
    { <<"Here", OpenFence, Newline, "{ok}", Newline, PlainFence, "bye">>,
      <<PlainFence, "{bad}", PlainFence, OpenFence, "{ok}", PlainFence>>,
      <<"no block">>,
      <<OpenFence, "{ok}">>,
      <<OpenFence, "oops", PlainFence>>,
      <<OpenFence, "{}", PlainFence>>,
      <<OpenFence, "{bad}", PlainFence>>,
      <<OpenFence, "[1]", PlainFence>> }

\* what a backend wrapped by with_structured_output returns when it does
\* not raise: an instance of the target schema
StructuredAnswer(schema) ==
    IF schema = "WarrenBuffettSignal"
    THEN ParsedOk
    ELSE [flag |-> Val("bool", "True"), reasoning |-> Val("str", "x")]

Response(kind, content, val) == [kind |-> kind, content |-> content, val |-> val]

Raises == Response("raise", << >>, << >>)

BackendResponses(client, schema) ==
    CASE client = "structured" ->
            {Raises, Response("value", << >>, StructuredAnswer(schema))}
      [] client = "raw" ->
            {Raises} \cup {Response("message", c, << >>) : c \in Contents}
      [] OTHER -> {Raises}    \* llm is None: llm.invoke is an AttributeError

\* what default_factory() returns when it returns
\* (src/agents/warren_buffett.py lines 320-325: create_default_signal)
FactoryOutput(schema) ==
    IF schema = "WarrenBuffettSignal"
    THEN [signal     |-> Val("str", "neutral"),
          confidence |-> Val("float", "0.0"),
          reasoning  |-> Val("str", "Analysis error")]
    ELSE [flag |-> Val("bool", "False"), reasoning |-> Val("str", "Analysis error")]

-----------------------------------------------------------------------------
(* src/utils/llm.py: call_llm                                              *)

NoResult == [tag |-> "none", val |-> << >>]
Returned(v) == [tag |-> "inst", val |-> v]

\* a retry loop that runs one iteration too many
in_range_inclusive(a, n) == a <= n

\* line 67: for attempt in range(max_retries)
in_range(a, n) == a < n

\* a last-attempt test that gives up one attempt early
is_last_attempt_early(a, n) == a = n - 2

\* line 88: if attempt == max_retries - 1
is_last_attempt(a, n) == a = n - 1

\* lines 70-80, the try body of one attempt on response r:
\* "success" (a return), "raised", or "fell_through" (the body ends without
\* returning and without raising: the extraction gave a false value)
try_body(name, schema, r) ==
    IF r.kind = "raise" THEN [outcome |-> "raised", val |-> << >>]
    ELSE IF is_deepseek(name)
    THEN LET parsed_result == extract_json_from_deepseek_response(r.content)
         IN  IF truthy(parsed_result)
             THEN IF parsed_result.tag = "dict" /\ Validates(schema, parsed_result.d)
                  THEN [outcome |-> "success",
                        val |-> Construct(schema, parsed_result.d)]
                  ELSE [outcome |-> "raised", val |-> << >>]
             ELSE [outcome |-> "fell_through", val |-> << >>]
    ELSE [outcome |-> "success", val |-> r.val]

\* lines 92-94: the fallback value ("raised" when building it raises)
fallback(factory, schema) ==
    IF factory /= "None"
    THEN [raised |-> factory = "raises", val |-> FactoryOutput(schema)]
    ELSE create_default_response(schema)

\* lines 56-64: resolve the backend and choose the mode
ResolveModel ==
    /\ pc = "Start"
    /\ LET client == get_model(model_name, model_provider, api_key)
       IN  IF client = "ValueError"
           THEN pc' = "Raised" /\ llm' = llm
           ELSE IF ~is_deepseek(model_name)
           THEN IF client = "None"
                THEN pc' = "Raised" /\ llm' = "None"
                ELSE pc' = "Loop" /\ llm' = "structured"
           ELSE pc' = "Loop" /\ llm' = (IF client = "None" THEN "None" ELSE "raw")
    /\ UNCHANGED <<model_name, model_provider, api_key, pydantic_model,
                   agent_name, max_retries, default_factory,
                   status_callback, attempt, result, invLog, statusLog,
                   agent_status>>
    /\ UNCHANGED <<cacheVars, mergeVars, defaultVars, extractVars, agentVars,
                   fetchVars, handleVars, raceVars, tableVars, progressVars>>

\* lines 67-94: one iteration of the retry loop
Attempt ==
    /\ pc = "Loop"
    /\ in_range(attempt, max_retries)
    /\ \E r \in BackendResponses(llm, pydantic_model) :
         LET o  == try_body(model_name, pydantic_model, r)
             fb == fallback(default_factory, pydantic_model)
         IN  /\ invLog' = Append(invLog, [attempt |-> attempt + 1,
                                          outcome |-> o.outcome])
             /\ \/ /\ o.outcome = "success"
                   /\ pc' = "Success"
                   /\ result' = Returned(o.val)
                   /\ UNCHANGED <<attempt, statusLog, agent_status>>
                \/ /\ o.outcome = "fell_through"
                   /\ attempt' = attempt + 1
                   /\ UNCHANGED <<pc, result, statusLog, agent_status>>
                \/ /\ o.outcome = "raised"
                   /\ IF truthy_str(agent_name)
                      THEN /\ statusLog' = Append(statusLog,
                                  retry_message(attempt + 1, max_retries))
                           /\ agent_status' = update_status(agent_status,
                                  agent_name, "None",
                                  retry_message(attempt + 1, max_retries))
                      ELSE UNCHANGED <<statusLog, agent_status>>
                   /\ IF truthy_str(agent_name) /\ status_callback = "raises"
                      THEN \* line 85 is inside the except clause: what
                           \* update_status raises leaves call_llm
                           /\ pc' = "Raised"
                           /\ UNCHANGED <<attempt, result>>
                      ELSE IF is_last_attempt(attempt, max_retries)
                      THEN /\ pc' = (IF fb.raised THEN "Raised"
                                     ELSE "ExhaustedFallback")
                           /\ result' = (IF fb.raised THEN NoResult
                                         ELSE Returned(fb.val))
                           /\ attempt' = attempt
                      ELSE /\ attempt' = attempt + 1
                           /\ UNCHANGED <<pc, result>>
    /\ UNCHANGED <<model_name, model_provider, api_key, pydantic_model,
                   agent_name, max_retries, default_factory,
                   status_callback, llm>>
    /\ UNCHANGED <<cacheVars, mergeVars, defaultVars, extractVars, agentVars,
                   fetchVars, handleVars, raceVars, tableVars, progressVars>>

\* line 97: the loop ended without a return
LoopExit ==
    /\ pc = "Loop"
    /\ ~in_range(attempt, max_retries)
    /\ LET d == create_default_response(pydantic_model)
       IN  /\ pc' = (IF d.raised THEN "Raised" ELSE "ExhaustedFallback")
           /\ result' = (IF d.raised THEN NoResult ELSE Returned(d.val))
    /\ UNCHANGED <<model_name, model_provider, api_key, pydantic_model,
                   agent_name, max_retries, default_factory,
                   status_callback, llm, attempt,
                   invLog, statusLog, agent_status>>
    /\ UNCHANGED <<cacheVars, mergeVars, defaultVars, extractVars, agentVars,
                   fetchVars, handleVars, raceVars, tableVars, progressVars>>

\* ---- the states in which the other parts of the model are at rest ----

InitDefaultIdle ==
    /\ d_schema = "WarrenBuffettSignal"
    /\ d_fields = << >>
    /\ d_default_values = << >>
    /\ d_result = [raised |-> FALSE, val |-> << >>]
    /\ d_pc = "idle"

InitExtractIdle ==
    /\ x_content = << >>
    /\ x_parsed = [tag |-> "None"]
    /\ x_outcome = "none"
    /\ x_pc = "idle"

InitAgentIdle ==
    /\ wb_tickers = << >>
    /\ wb_i = 1
    /\ wb_pc = "idle"
    /\ wb_line_items = << >>
    /\ buffett_analysis = << >>
    /\ analyst_signals = [present |-> FALSE, val |-> << >>]

InitFetchIdle ==
    /\ f_fn = "none"
    /\ f_ticker = ""
    /\ f_start = 0
    /\ f_end = 0
    /\ f_limit = 0
    /\ f_pc = "idle"
    /\ f_cur_end = 0
    /\ f_all = << >>
    /\ f_status = 0
    /\ f_events = << >>
    /\ f_result = << >>
    /\ f_cache0 = EmptyCache

NoHandleGet == [handle |-> 0, kind |-> "none", ticker |-> "", result |-> Absent]

NothingWritten == [kt \in {} |-> << >>]

\* importing data.cache has run "_cache = Cache()": one instance, all empty
InitHandlesIdle ==
    /\ heap = [i \in {1} |-> EmptyCache]
    /\ cache_global = 1
    /\ handles = << >>
    /\ h_written = NothingWritten
    /\ h_writer = 0
    /\ h_last = NoHandleGet
    /\ h_ops = 0

Callers == {1, 2}

InitRaceIdle ==
    /\ r_kind = "prices"
    /\ r_bucket = Absent
    /\ r_data = [c \in Callers |-> << >>]
    /\ r_pc = [c \in Callers |-> "idle"]
    /\ r_merged = [c \in Callers |-> << >>]
    /\ r_overlap = FALSE

InitTableIdle ==
    /\ t_signals = << >>
    /\ t_i = 1
    /\ table_data = << >>
    /\ t_pc = "idle"

NoCall == [agent |-> "none", ticker |-> "None", status |-> "",
           before |-> NoAgents]

InitProgressIdle ==
    /\ p_last = NoCall
    /\ p_calls = 0

InitOtherIdle ==
    InitHandlesIdle /\ InitRaceIdle /\ InitTableIdle /\ InitProgressIdle

InitRestIdle ==
    /\ InitDefaultIdle /\ InitExtractIdle /\ InitAgentIdle /\ InitFetchIdle
    /\ InitOtherIdle

AgentNames == {"None", "warren_buffett_agent"}
Factories == {"None", "returns", "raises"}

InitLLM ==
    /\ model_name \in ModelNames
    /\ model_provider \in Providers
    /\ api_key \in BOOLEAN
    /\ pydantic_model \in SchemaNames
    /\ agent_name \in AgentNames
    /\ max_retries \in 0..MaxRetries
    /\ default_factory \in Factories
    /\ status_callback = "returns"
    /\ pc = "Start"
    /\ llm = "unset"
    /\ attempt = 0
    /\ result = NoResult
    /\ invLog = << >>
    /\ statusLog = << >>
    /\ agent_status = NoAgents
    /\ InitCacheIdle
    /\ InitMergeIdle
    /\ InitRestIdle

NextLLM == ResolveModel \/ Attempt \/ LoopExit

SpecLLM == InitLLM /\ [][NextLLM]_vars

\* One call_llm invocation in a process where progress.update_status can
\* raise. AgentProgress guards neither agent_status nor its rich Table with
\* a lock (progress.py:74-87, 99-152) while the Live display thread and the
\* other agents use them: update_status either returns or raises.
InitLLMCallback ==
    /\ model_name \in ModelNames
    /\ model_provider \in Providers
    /\ api_key \in BOOLEAN
    /\ pydantic_model \in SchemaNames
    /\ agent_name \in AgentNames
    /\ max_retries \in 0..MaxRetries
    /\ default_factory \in Factories
    /\ status_callback \in {"returns", "raises"}
    /\ pc = "Start"
    /\ llm = "unset"
    /\ attempt = 0
    /\ result = NoResult
    /\ invLog = << >>
    /\ statusLog = << >>
    /\ agent_status = NoAgents
    /\ InitCacheIdle
    /\ InitMergeIdle
    /\ InitRestIdle

SpecLLMCallback == InitLLMCallback /\ [][NextLLM]_vars

\* the state in which no call_llm invocation is under way
InitLLMIdle ==
    /\ model_name = "gpt-4o"
    /\ model_provider = "OpenAI"
    /\ api_key = TRUE
    /\ pydantic_model = "WarrenBuffettSignal"
    /\ agent_name = "None"
    /\ max_retries = 0
    /\ default_factory = "None"
    /\ status_callback = "returns"
    /\ pc = "Idle"
    /\ llm = "unset"
    /\ attempt = 0
    /\ result = NoResult
    /\ invLog = << >>
    /\ statusLog = << >>
    /\ agent_status = NoAgents

InitCache == InitLLMIdle /\ InitCacheIdle /\ InitMergeIdle /\ InitRestIdle

NextCache ==
    \/ set_prices
    \/ set_financial_metrics
    \/ set_line_items
    \/ set_insider_trades
    \/ set_company_news
    \/ get_prices
    \/ get_financial_metrics
    \/ get_line_items
    \/ get_insider_trades
    \/ get_company_news

SpecCache == InitCache /\ [][NextCache]_vars

NextMerge == call_merge_data

InitMerge ==
    InitLLMIdle /\ InitCacheIdle /\ MergeArguments /\ InitRestIdle

SpecMerge == InitMerge /\ [][NextMerge]_vars


-----------------------------------------------------------------------------
(* Claims about call_llm (checked under SpecLLM)                           *)

Returns == pc \in {"Success", "ExhaustedFallback"}

FailedAttempts == {i \in 1..Len(invLog) : invLog[i].outcome /= "success"}
SuccessfulAttempts == {i \in 1..Len(invLog) : invLog[i].outcome = "success"}

\* C1: call_llm never lets an error escape to its caller, and whatever it
\* returns is an instance that conforms to the target schema.
C1_NeverRaisesAlwaysConformant ==
    /\ pc /= "Raised"
    /\ Returns => Validates(pydantic_model, result.val)

\* C2: when at least one attempt was made and every attempt failed (by a
\* raised error or by an extraction that gave nothing), call_llm returns the
\* output of default_factory if one was supplied, and the synthesized
\* default of the target schema only if none was supplied.
C2_FallbackIsFactoryOutput ==
    (pc = "ExhaustedFallback" /\ invLog /= << >>) =>
        /\ default_factory = "returns" =>
              result.val = FactoryOutput(pydantic_model)
        /\ default_factory = "None" =>
              result.val = default_values(pydantic_model)

\* C3: the backend is never invoked more than max_retries times; when
\* call_llm returns, the number of backend invocations is the index of the
\* first successful attempt, or max_retries when no attempt succeeded; a
\* structured backend that succeeds on attempt 1 is invoked once and its
\* value is the result.
C3_InvocationCount ==
    /\ Len(invLog) <= max_retries
    /\ Returns =>
          IF SuccessfulAttempts /= {}
          THEN \A i \in SuccessfulAttempts : Len(invLog) <= i
          ELSE Len(invLog) = max_retries
    /\ (llm = "structured" /\ 1 \in SuccessfulAttempts) =>
          /\ Len(invLog) = 1
          /\ result = Returned(StructuredAnswer(pydantic_model))

\* a backend that always fails, with max_retries = 3, was invoked 3 times
C3_Witness ==
    /\ pc = "ExhaustedFallback"
    /\ max_retries = 3
    /\ Len(invLog) = 3
    /\ FailedAttempts = {1, 2, 3}

\* C4: when an agent label is supplied, the status callback is called
\* exactly once for every failed attempt (raised error or extraction
\* failure), the k-th call reports attempt number k, and it is never called
\* for a successful attempt.
C4_StatusPerFailedAttempt ==
    truthy_str(agent_name) =>
        /\ Len(statusLog) = Cardinality(FailedAttempts)
        /\ \A k \in 1..Len(statusLog) :
              statusLog[k] = retry_message(k, max_retries)

\* C5: attempts run in the order 1..max_retries, attempt n+1 begins only
\* after attempt n failed, nothing is invoked after a success, Success is
\* entered exactly by a successful attempt, and the fallback state is
\* entered only after max_retries failed attempts.
C5_StateMachine ==
    /\ \A i \in 1..Len(invLog) : invLog[i].attempt = i
    /\ Len(invLog) <= max_retries
    /\ \A i \in 1..(Len(invLog) - 1) : i \in FailedAttempts
    /\ pc = "Success" <=> Len(invLog) \in SuccessfulAttempts
    /\ pc = "ExhaustedFallback" =>
          /\ Len(invLog) = max_retries
          /\ FailedAttempts = 1..max_retries
    /\ pc = "Start" => invLog = << >>

\* two failed attempts, then a success on the third
C5_Witness ==
    /\ pc = "Success"
    /\ Len(invLog) = 3
    /\ FailedAttempts = {1, 2}


-----------------------------------------------------------------------------
(* Claims about the cache (SpecCache) and about _merge_data (SpecMerge)    *)

Bucket(kind, ticker) == dict_get(cache[kind], ticker)

HasKey(item, key) == key \in DOMAIN item

Occurrences(seq, x) == Cardinality({i \in 1..Len(seq) : seq[i] = x})

\* C6: no bucket of any kind holds two records for the same ticker with
\* the same value of that kind's identity field.
C6_NoDuplicateIdentity ==
    \A k \in Kinds : \A t \in DOMAIN cache[k] :
        \A i, j \in 1..Len(cache[k][t]) :
            ( /\ i < j
              /\ HasKey(cache[k][t][i], key_field_of(k))
              /\ HasKey(cache[k][t][j], key_field_of(k)) )
            => cache[k][t][i][key_field_of(k)] /= cache[k][t][j][key_field_of(k)]

AllHaveKey(seq, key) == \A i \in 1..Len(seq) : HasKey(seq[i], key)

KeysOf(seq, key) == {seq[i][key] : i \in 1..Len(seq)}

\* C7: the result of _merge_data contains every record of existing, and
\* contains exactly once every incoming record whose identity value is
\* absent from existing (stated for records that have the identity field).
C7_MergeCompleteness ==
    ( /\ m_pc = "done"
      /\ ~m_merged.raised
      /\ AllHaveKey(m_existing.items, m_key_field)
      /\ AllHaveKey(m_new_data, m_key_field) )
    => /\ \A i \in 1..Len(m_existing.items) :
             Occurrences(m_merged.val, m_existing.items[i]) >= 1
       /\ \A j \in 1..Len(m_new_data) :
             m_new_data[j][m_key_field] \notin KeysOf(m_existing.items, m_key_field)
             => Occurrences(m_merged.val, m_new_data[j]) = 1

RECURSIVE NotStored(_, _, _)
NotStored(seq, keys, key) ==
    IF seq = << >> THEN << >>
    ELSE IF Head(seq)[key] \in keys
         THEN NotStored(Tail(seq), keys, key)
         ELSE <<Head(seq)>> \o NotStored(Tail(seq), keys, key)

\* C9: when _merge_data returns and existing is non-empty, the result is
\* existing, in its order and unmodified, followed by the incoming records
\* whose identity value is not in existing, in incoming's order; when
\* existing is empty or absent the result is incoming verbatim.
C9_MergeResult ==
    (m_pc = "done" /\ ~m_merged.raised) =>
        IF m_existing.items = << >>
        THEN m_merged.val = m_new_data
        ELSE LET n == Len(m_existing.items)
                 r == m_merged.val
             IN  /\ Len(r) >= n
                 /\ SubSeq(r, 1, n) = m_existing.items
                 /\ SubSeq(r, n + 1, Len(r)) =
                       NotStored(m_new_data,
                                 KeysOf(m_existing.items, m_key_field),
                                 m_key_field)

\* existing holds identity 1; incoming holds identity 1 with another payload
\* and identity 2: the stored record is kept and only identity 2 is added
C9_Witness ==
    /\ m_pc = "done"
    /\ ~m_merged.raised
    /\ m_existing.items = <<Item(m_key_field, 1, 1)>>
    /\ m_new_data = <<Item(m_key_field, 1, 2), Item(m_key_field, 2, 1)>>
    /\ m_merged.val = <<Item(m_key_field, 1, 1), Item(m_key_field, 2, 1)>>

\* C10: a set call whose incoming list contains a record that lacks the
\* kind's identity field fails with an error, and that record is not
\* stored, whatever the bucket held before.
C10_MissingKeyFails ==
    (\E i \in 1..Len(lastSet.data) :
        ~HasKey(lastSet.data[i], key_field_of(lastSet.kind)))
    => /\ lastSet.raised
       /\ AllHaveKey(Bucket(lastSet.kind, lastSet.ticker).items,
                     key_field_of(lastSet.kind))

\* ---- C11, C12: reads of the cache, and growth of its buckets ----

\* C11: for each of the five kinds, a get for a ticker returns None exactly
\* when no set has been performed for that kind and ticker, and a get
\* changes no bucket.
C11_GetAbsentIffNeverSet ==
    [][nGets' = nGets + 1 =>
        /\ cache' = cache
        /\ lastGet'.result.present
              <=> <<lastGet'.kind, lastGet'.ticker>> \in setDone]_vars

\* a get returned the empty list of a bucket that a set created with an
\* empty list
C11_Witness ==
    /\ nGets > 0
    /\ lastGet.result = [present |-> TRUE, items |-> << >>]
    /\ <<lastGet.kind, lastGet.ticker>> \in setDone

IsPrefix(a, b) == Len(a) <= Len(b) /\ a = SubSeq(b, 1, Len(a))

\* C12: a bucket that exists is never removed and never shrinks: after
\* every set, the previous contents of the bucket are a prefix of its new
\* contents.
C12_BucketsOnlyGrow ==
    [][\A k \in Kinds : \A t \in DOMAIN cache[k] :
          /\ t \in DOMAIN cache'[k]
          /\ IsPrefix(cache[k][t], cache'[k][t])]_vars

\* a set on a bucket that held records has stored a longer list
C12_Witness ==
    /\ lastSet.before.present
    /\ lastSet.before.items /= << >>
    /\ ~lastSet.raised
    /\ Len(Bucket(lastSet.kind, lastSet.ticker).items)
          > Len(lastSet.before.items)


-----------------------------------------------------------------------------
(* One call of create_default_response on a schema drawn from bounded sets *)

\* field annotations: str, float, int, bool, Dict[str, float], the bare
\* class dict, Literal["bullish", "bearish", "neutral"], Optional[str] and
\* List[str]
Annotations ==
    {Ann("str", NoArgs), Ann("float", NoArgs), Ann("int", NoArgs),
     Ann("bool", NoArgs), Ann("Dict", <<"str", "float">>),
     Ann("dict", NoArgs),
     Ann("Literal", <<"bullish", "bearish", "neutral">>),
     Ann("Optional", <<"str", "NoneType">>), Ann("List", <<"str">>)}

FieldNamePool == <<"signal", "confidence", "reasoning", "details">>

\* the model classes with at most MaxFields fields
DrawnSchemas ==
    UNION {[1..n -> Annotations] : n \in 0..MaxFields}

InitDefault ==
    /\ InitLLMIdle /\ InitCacheIdle /\ InitMergeIdle
    /\ InitExtractIdle /\ InitAgentIdle /\ InitFetchIdle /\ InitOtherIdle
    /\ d_schema \in SchemaNames \cup {"DrawnSchema"}
    /\ IF d_schema = "DrawnSchema"
       THEN \E anns \in DrawnSchemas :
               d_fields = [i \in 1..Len(anns) |->
                             [name |-> FieldNamePool[i], ann |-> anns[i]]]
       ELSE d_fields = << >>
    /\ d_default_values = << >>
    /\ d_result = [raised |-> FALSE, val |-> << >>]
    /\ d_pc = "call"

\* lines 116-137
call_create_default_response ==
    /\ d_pc = "call"
    /\ d_default_values' = default_values(d_schema)
    /\ d_result' = create_default_response(d_schema)
    /\ d_pc' = "done"
    /\ UNCHANGED <<d_schema, d_fields>>
    /\ UNCHANGED <<llmVars, cacheVars, mergeVars, extractVars, agentVars,
                   fetchVars, handleVars, raceVars, tableVars, progressVars>>

NextDefault == call_create_default_response

SpecDefault == InitDefault /\ [][NextDefault]_vars

\* C13: create_default_response returns a schema-valid instance for every
\* target schema, whatever the declared types of its fields (boolean,
\* optional, list and un-parameterised mapping fields included).
C13_DefaultAlwaysValid ==
    d_pc = "done" =>
        /\ ~d_result.raised
        /\ Validates(d_schema, d_result.val)

MappingKinds == {"Dict", "dict"}

\* C14: create_default_response chooses each field's default by its
\* declared type: a placeholder string for a string field, 0.0 for a
\* float, 0 for an integer, an empty mapping for a mapping field and the
\* first allowed value for a restricted-choice field; for the schema
\* (signal, confidence, reasoning) it yields bullish, 0.0 and a string.
C14_DefaultsByDeclaredType ==
    d_pc = "done" =>
        /\ \A f \in FieldNames(d_schema) :
              LET ann == AnnOf(d_schema, f)
                  v   == d_default_values[f]
              IN  /\ ann.kind = "str" => v.t = "str"
                  /\ ann.kind = "float" => v = Val("float", "0.0")
                  /\ ann.kind = "int" => v = Val("int", "0")
                  /\ ann.kind \in MappingKinds => v = Val("dict", "{}")
                  /\ ann.kind = "Literal" => v = Val("str", ann.args[1])
        /\ d_schema = "WarrenBuffettSignal" =>
              /\ ~d_result.raised
              /\ d_result.val.signal = Val("str", "bullish")
              /\ d_result.val.confidence = Val("float", "0.0")
              /\ d_result.val.reasoning.t = "str"


-----------------------------------------------------------------------------
(* One attempt of call_llm in non-structured mode, on a response text      *)
(* drawn from the token sequences of at most MaxTokens tokens              *)

Tokens == {OpenFence, PlainFence, Newline, "{ok}", "null", "txt"}

InitExtract ==
    /\ InitLLMIdle /\ InitCacheIdle /\ InitMergeIdle
    /\ InitDefaultIdle /\ InitAgentIdle /\ InitFetchIdle /\ InitOtherIdle
    /\ x_content \in ListsUpTo(Tokens, MaxTokens)
    /\ x_parsed = [tag |-> "None"]
    /\ x_outcome = "none"
    /\ x_pc = "call"

\* lines 70-80 for a DeepSeek model whose llm.invoke returned a message
try_raw_attempt ==
    /\ x_pc = "call"
    /\ x_parsed' = extract_json_from_deepseek_response(x_content)
    /\ x_outcome' = try_body("deepseek-chat", "WarrenBuffettSignal",
                             Response("message", x_content, << >>)).outcome
    /\ x_pc' = "done"
    /\ UNCHANGED x_content
    /\ UNCHANGED <<llmVars, cacheVars, mergeVars, defaultVars, agentVars,
                   fetchVars, handleVars, raceVars, tableVars, progressVars>>

NextExtract == try_raw_attempt

SpecExtract == InitExtract /\ [][NextExtract]_vars

Min(S) == CHOOSE x \in S : \A y \in S : x <= y

\* C15: the extraction takes the text between the first opening fence
\* tagged json and the first closing fence after it and returns it parsed
\* as JSON; it returns None, without raising, when there is no opening
\* fence, no closing fence after it, or the text between them is not valid
\* JSON; in non-structured mode such a failure makes the attempt fail
\* without an error, so that the retry loop goes on to the next attempt.
C15_ExtractionSemantics ==
    x_pc = "done" =>
        LET n      == Len(x_content)
            opens  == {i \in 1..n : x_content[i] = OpenFence}
            closes == {j \in (Min(opens) + 1)..n :
                          x_content[j] \in {PlainFence, OpenFence}}
            between == SubSeq(x_content, Min(opens) + 1, Min(closes) - 1)
            failed == x_parsed = [tag |-> "None"] /\ x_outcome = "fell_through"
        IN  IF opens = {} THEN failed
            ELSE IF closes = {} THEN failed
            ELSE IF json_loads(strip(between)).tag = "error" THEN failed
            ELSE x_parsed = json_loads(strip(between))

\* an opening fence, text that is not JSON, a closing fence: the extraction
\* returned None and the attempt fell through
C15_Witness ==
    /\ x_pc = "done"
    /\ \E i \in 1..Len(x_content) : \E j \in (i+2)..Len(x_content) :
          /\ x_content[i] = OpenFence
          /\ x_content[i+1] = "txt"
          /\ x_content[j] = PlainFence
    /\ x_parsed = [tag |-> "None"]
    /\ x_outcome = "fell_through"


-----------------------------------------------------------------------------
(* The status callback of call_llm (checked under SpecLLMCallback)         *)

\* C16: the status callback never affects the control flow of call_llm:
\* for the same backend behaviour, call_llm performs the same sequence of
\* backend invocations and returns the same value whether the callback is
\* absent, returns normally, or raises. Stated on the attempt outcomes
\* recorded in invLog: after an attempt that raised, the invocation is
\* where the arguments other than agent_name and the callback put it --
\* at the next attempt, or, after the last attempt, at the fallback.
C16_CallbackNeverAffectsFlow ==
    (invLog /= << >> /\ invLog[Len(invLog)].outcome = "raised") =>
        LET fb == fallback(default_factory, pydantic_model)
        IN  IF Len(invLog) = max_retries
            THEN /\ pc = (IF fb.raised THEN "Raised" ELSE "ExhaustedFallback")
                 /\ result = (IF fb.raised THEN NoResult ELSE Returned(fb.val))
            ELSE /\ pc = "Loop"
                 /\ attempt = Len(invLog)


-----------------------------------------------------------------------------
(* src/agents/warren_buffett.py: warren_buffett_agent                      *)
(* One run of the agent over a ticker list. The data the fetch functions   *)
(* return for a ticker is drawn when the ticker is analysed; the LLM call  *)
(* of generate_buffett_output is the call_llm invocation modelled above.   *)

\* a line-item record: 1 for a number, 0 for a field that is None or 0
LineItemRecords ==
    [net_income : {0, 1}, depreciation_and_amortization : {0, 1},
     capital_expenditure : {0, 1}, outstanding_shares : {0, 1}]

\* search_line_items returns a list; the analysis reads its first record
LineItemLists == {<< >>} \cup {<<r>> : r \in LineItemRecords}

\* lines 212-239: the keys of the returned dictionary, and whether its
\* owner_earnings is truthy
calculate_owner_earnings(items) ==
    IF items = << >>
    THEN [keys |-> {"owner_earnings", "details"}, owner_earnings |-> FALSE]
    ELSE IF \/ items[1].net_income = 0
            \/ items[1].depreciation_and_amortization = 0
            \/ items[1].capital_expenditure = 0
    THEN [keys |-> {"owner_earnings", "details"}, owner_earnings |-> FALSE]
    ELSE [keys |-> {"owner_earnings", "components", "details"},
          owner_earnings |-> TRUE]

\* lines 241-285: the keys of the returned dictionary
calculate_intrinsic_value(items) ==
    IF items = << >> THEN {"value", "details"}
    ELSE IF ~calculate_owner_earnings(items).owner_earnings
    THEN calculate_owner_earnings(items).keys
    ELSE IF items[1].outstanding_shares = 0 THEN {"value", "details"}
    ELSE {"intrinsic_value", "owner_earnings", "assumptions", "details"}

TickerLists == {l \in ListsUpTo(Tickers, MaxTickers) : l /= << >>}

InitAgent ==
    /\ model_name \in ModelNames
    /\ model_provider \in Providers
    /\ api_key \in BOOLEAN
    /\ pydantic_model = "WarrenBuffettSignal"
    /\ agent_name = "warren_buffett_agent"
    /\ max_retries = DefaultMaxRetries
    /\ default_factory = "returns"
    /\ status_callback = "returns"
    /\ pc = "Idle"
    /\ llm = "unset"
    /\ attempt = 0
    /\ result = NoResult
    /\ invLog = << >>
    /\ statusLog = << >>
    /\ agent_status = NoAgents
    /\ InitCacheIdle /\ InitMergeIdle /\ InitDefaultIdle /\ InitExtractIdle
    /\ InitFetchIdle /\ InitOtherIdle
    /\ wb_tickers \in TickerLists
    /\ wb_i = 1
    /\ wb_pc = "analyze"
    /\ wb_line_items = << >>
    /\ buffett_analysis = << >>
    /\ analyst_signals = [present |-> FALSE, val |-> << >>]

\* lines 31-107 for one ticker: fetch, analyse, and enter call_llm through
\* generate_buffett_output (lines 287-335). Line 76 reads the key
\* "intrinsic_value" of what calculate_intrinsic_value returned: a KeyError
\* when the key is not there.
analyze_ticker ==
    /\ wb_pc = "analyze"
    /\ wb_i <= Len(wb_tickers)
    /\ \E items \in LineItemLists :
         /\ wb_line_items' = items
         /\ IF "intrinsic_value" \in calculate_intrinsic_value(items)
            THEN /\ wb_pc' = "llm"
                 /\ pc' = "Start"
                 /\ llm' = "unset"
                 /\ attempt' = 0
                 /\ result' = NoResult
                 /\ invLog' = << >>
                 /\ statusLog' = << >>
                 /\ agent_status' = update_status(agent_status,
                        "warren_buffett_agent", wb_tickers[wb_i],
                        "Generating Buffett analysis")
            ELSE /\ wb_pc' = "raised"
                 /\ agent_status' = update_status(agent_status,
                        "warren_buffett_agent", wb_tickers[wb_i],
                        "Calculating intrinsic value")
                 /\ UNCHANGED <<pc, llm, attempt, result, invLog, statusLog>>
    /\ UNCHANGED <<model_name, model_provider, api_key, pydantic_model,
                   agent_name, max_retries, default_factory, status_callback>>
    /\ UNCHANGED <<wb_tickers, wb_i, buffett_analysis, analyst_signals>>
    /\ UNCHANGED <<cacheVars, mergeVars, defaultVars, extractVars, fetchVars, handleVars, raceVars, tableVars, progressVars>>

\* lines 109-116: call_llm returned; store the signal of the ticker
store_signal ==
    /\ wb_pc = "llm"
    /\ pc \in {"Success", "ExhaustedFallback"}
    /\ buffett_analysis' =
          [t \in DOMAIN buffett_analysis \cup {wb_tickers[wb_i]} |->
              IF t = wb_tickers[wb_i]
              THEN [signal     |-> result.val.signal,
                    confidence |-> result.val.confidence,
                    reasoning  |-> result.val.reasoning]
              ELSE buffett_analysis[t]]
    /\ agent_status' = update_status(agent_status, "warren_buffett_agent",
                                     wb_tickers[wb_i], "Done")
    /\ wb_i' = wb_i + 1
    /\ wb_pc' = "analyze"
    /\ UNCHANGED <<model_name, model_provider, api_key, pydantic_model,
                   agent_name, max_retries, default_factory, status_callback,
                   pc, llm, attempt, result, invLog, statusLog>>
    /\ UNCHANGED <<wb_tickers, wb_line_items, analyst_signals>>
    /\ UNCHANGED <<cacheVars, mergeVars, defaultVars, extractVars, fetchVars, handleVars, raceVars, tableVars, progressVars>>

\* what call_llm raised passes through generate_buffett_output (line 328)
\* and the agent (line 102)
llm_call_raised ==
    /\ wb_pc = "llm"
    /\ pc = "Raised"
    /\ wb_pc' = "raised"
    /\ UNCHANGED <<wb_tickers, wb_i, wb_line_items, buffett_analysis,
                   analyst_signals>>
    /\ UNCHANGED <<llmVars, cacheVars, mergeVars, defaultVars, extractVars,
                   fetchVars, handleVars, raceVars, tableVars, progressVars>>

\* lines 118-128: the loop is over; save the results to the shared state
save_signals ==
    /\ wb_pc = "analyze"
    /\ wb_i > Len(wb_tickers)
    /\ analyst_signals' = [present |-> TRUE, val |-> buffett_analysis]
    /\ wb_pc' = "done"
    /\ UNCHANGED <<wb_tickers, wb_i, wb_line_items, buffett_analysis>>
    /\ UNCHANGED <<llmVars, cacheVars, mergeVars, defaultVars, extractVars,
                   fetchVars, handleVars, raceVars, tableVars, progressVars>>

NextAgent ==
    \/ analyze_ticker
    \/ ResolveModel
    \/ Attempt
    \/ LoopExit
    \/ store_signal
    \/ llm_call_raised
    \/ save_signals

SpecAgent == InitAgent /\ [][NextAgent]_vars

\* C17: the agent records exactly one signal (signal, confidence,
\* reasoning) for every ticker of its ticker list, for any data the fetch
\* functions return without error (empty metric and line-item lists
\* included) and any LLM outcome: a bad result for one ticker never aborts
\* the processing of the remaining tickers.
C17_OneSignalPerTicker ==
    /\ wb_pc /= "raised"
    /\ wb_pc = "done" =>
          /\ analyst_signals.present
          /\ DOMAIN analyst_signals.val =
                {wb_tickers[i] : i \in 1..Len(wb_tickers)}

\* C18: when every LLM attempt for a ticker fails, the agent still stores a
\* complete signal for that ticker, namely signal "neutral", confidence 0.0
\* and reasoning "Analysis error".
C18_AllAttemptsFailStoresNeutral ==
    (/\ wb_pc \in {"analyze", "done"}
     /\ wb_i > 1
     /\ invLog /= << >>
     /\ \A k \in 1..Len(invLog) : invLog[k].outcome /= "success") =>
        /\ wb_tickers[wb_i - 1] \in DOMAIN buffett_analysis
        /\ buffett_analysis[wb_tickers[wb_i - 1]] =
              [signal     |-> Val("str", "neutral"),
               confidence |-> Val("float", "0.0"),
               reasoning  |-> Val("str", "Analysis error")]


-----------------------------------------------------------------------------
(* src/tools/api.py: the fetch functions                                   *)
(* One call of a fetch function, on a cache whose bucket for the ticker is *)
(* drawn from what earlier fetches can have left. Dates are small integers *)
(* (ISO dates compare as strings in the order of the days they name).      *)

FetchFunctions ==
    {"get_prices", "get_financial_metrics", "search_line_items",
     "get_insider_trades", "get_company_news"}

\* the Cache dictionary behind each fetch function
kind_of(fn) ==
    CASE fn = "get_prices"            -> "prices"
      [] fn = "get_financial_metrics" -> "financial_metrics"
      [] fn = "search_line_items"     -> "line_items"
      [] fn = "get_insider_trades"    -> "insider_trades"
      [] fn = "get_company_news"      -> "company_news"

\* a fetch layer in which no function reads the cache
consults_cache_never(fn) == FALSE

\* whether the body begins with a read of the cache (lines 41, 95, 204,
\* 286); search_line_items "doesn't check cache" (lines 149, 178)
consults_cache(fn) == fn /= "search_line_items"

\* the functions with a pagination loop (lines 223-254, 304-334)
Paginated == {"get_insider_trades", "get_company_news"}

Dates == {1, 2, 3}
Limits == {1, 2}
StatusCodes == {200, 500}

\* a fetch layer that takes every response for a success
raises_on_never(status) == FALSE

\* lines 58, 111, 168, 232, 312: response.status_code != 200
raises_on(status) == status /= 200

\* records the API returns for dates lo..hi (payload 1) and records a
\* bucket can hold from earlier fetches (payload 2). The typed records
\* (Price(**price), model_dump()) carry the same fields as the dicts.
ApiRecords(kind, lo, hi) ==
    {Item(key_field_of(kind), d, 1) : d \in {x \in Dates : lo <= x /\ x <= hi}}
CachedRecords(kind) == {Item(key_field_of(kind), d, 2) : d \in Dates}

\* list.sort(key=..., reverse=True): newest first, stable
RECURSIVE SortNewestFirst(_, _)
SortNewestFirst(items, key) ==
    IF items = << >> THEN << >>
    ELSE LET mx == CHOOSE d \in {items[i][key] : i \in 1..Len(items)} :
                      \A j \in 1..Len(items) : items[j][key] <= d
         IN  SelectSeq(items, LAMBDA r : r[key] = mx) \o
             SortNewestFirst(SelectSeq(items, LAMBDA r : r[key] /= mx), key)

\* s[:n]
Take(s, n) == SubSeq(s, 1, IF Len(s) < n THEN Len(s) ELSE n)

\* filtered_data of lines 43, 97-100, 206-211, 288-293. The insider trades
\* of the model have no transaction_date, so their date is the filing_date.
filtered_data(fn, cached, start, end, limit) ==
    LET key == key_field_of(kind_of(fn))
    IN  CASE fn = "get_prices" ->
                SelectSeq(cached, LAMBDA r : start <= r[key] /\ r[key] <= end)
          [] fn = "get_financial_metrics" ->
                Take(SortNewestFirst(
                        SelectSeq(cached, LAMBDA r : r[key] <= end), key),
                     limit)
          [] OTHER ->
                SortNewestFirst(
                    SelectSeq(cached, LAMBDA r : /\ start = 0 \/ r[key] >= start
                                                 /\ r[key] <= end),
                    key)

InitFetch ==
    /\ InitLLMIdle /\ InitMergeIdle
    /\ InitDefaultIdle /\ InitExtractIdle /\ InitAgentIdle /\ InitOtherIdle
    /\ f_fn \in FetchFunctions
    /\ f_ticker \in Tickers
    /\ f_end \in Dates
    /\ f_start \in (IF f_fn = "get_prices"
                    THEN {d \in Dates : d <= f_end}
                    ELSE IF f_fn \in Paginated
                    THEN {0} \cup {d \in Dates : d <= f_end}
                    ELSE {0})
    /\ f_limit \in (IF f_fn = "get_prices" THEN {2} ELSE Limits)
    /\ \E bucket \in {Absent} \cup
            {[present |-> TRUE, items |-> l] :
                l \in ListsUpTo(CachedRecords(kind_of(f_fn)), MaxLen)} :
          /\ cache = (IF bucket.present
                      THEN [EmptyCache EXCEPT ![kind_of(f_fn)] =
                              [t \in {f_ticker} |-> bucket.items]]
                      ELSE EmptyCache)
          /\ setDone = (IF bucket.present
                        THEN {<<kind_of(f_fn), f_ticker>>} ELSE {})
    /\ lastSet = NoSet
    /\ nSets = 0
    /\ lastGet = NoGet
    /\ nGets = 0
    /\ f_pc = "call"
    /\ f_cur_end = f_end
    /\ f_all = << >>
    /\ f_status = 0
    /\ f_events = << >>
    /\ f_result = << >>
    /\ f_cache0 = cache

\* the part of a fetch function before its first request: the cache check
\* of get_prices (lines 41-45), get_financial_metrics (95-100),
\* get_insider_trades (204-211) and get_company_news (286-293);
\* search_line_items has none
fetch_call ==
    /\ f_pc = "call"
    /\ IF consults_cache(f_fn)
       THEN LET cached == dict_get(cache[kind_of(f_fn)], f_ticker)
                hit == IF cached.present
                       THEN filtered_data(f_fn, cached.items, f_start, f_end,
                                          f_limit)
                       ELSE << >>
            IN  /\ cache_get(kind_of(f_fn), f_ticker)
                /\ f_events' = Append(f_events, "cache_get")
                /\ IF hit /= << >>
                   THEN f_pc' = "returned" /\ f_result' = hit
                   ELSE f_pc' = "request" /\ f_result' = f_result
       ELSE /\ UNCHANGED cacheVars
            /\ UNCHANGED <<f_events, f_result>>
            /\ f_pc' = "request"
    /\ UNCHANGED <<f_fn, f_ticker, f_start, f_end, f_limit, f_cur_end, f_all,
                   f_status, f_cache0>>
    /\ UNCHANGED <<llmVars, mergeVars, defaultVars, extractVars, agentVars, handleVars, raceVars, tableVars, progressVars>>

NumRequests == Len(SelectSeq(f_events, LAMBDA ev : ev = "request"))

\* one request and what follows its response: lines 55-70, 109-123,
\* 167-179, and one iteration of the loops of lines 223-261 and 304-341.
\* The response holds at most f_limit records dated within the window asked
\* for; a response that is not a success holds none.
fetch_request ==
    /\ f_pc = "request"
    /\ NumRequests < MaxPages
    /\ \E status \in StatusCodes :
       \E records \in ListsUpTo(ApiRecords(kind_of(f_fn), f_start, f_cur_end),
                                f_limit) :
         LET key  == key_field_of(kind_of(f_fn))
             all  == IF f_fn \in Paginated THEN f_all \o records ELSE records
             full == /\ f_fn \in Paginated
                     /\ records /= << >>
                     /\ f_start /= 0
                     /\ Len(records) >= f_limit
             next_end == CHOOSE d \in {records[i][key] : i \in 1..Len(records)} :
                            \A j \in 1..Len(records) : d <= records[j][key]
         IN  /\ status /= 200 => records = << >>
             /\ f_status' = status
             /\ IF raises_on(status)
                THEN /\ f_pc' = "raised"
                     /\ f_events' = Append(f_events, "request")
                     /\ UNCHANGED cacheVars
                     /\ UNCHANGED <<f_all, f_cur_end, f_result>>
                ELSE /\ f_all' = all
                     /\ f_cur_end' = (IF full THEN next_end ELSE f_cur_end)
                     /\ IF full /\ next_end > f_start
                        THEN /\ f_pc' = "request"
                             /\ f_events' = Append(f_events, "request")
                             /\ UNCHANGED cacheVars
                             /\ UNCHANGED f_result
                        ELSE /\ f_pc' = "returned"
                             /\ IF all = << >>
                                THEN /\ f_result' = << >>
                                     /\ f_events' = Append(f_events, "request")
                                     /\ UNCHANGED cacheVars
                                ELSE IF f_fn = "search_line_items"
                                THEN /\ f_result' = Take(all, f_limit)
                                     /\ f_events' = Append(f_events, "request")
                                     /\ UNCHANGED cacheVars
                                ELSE /\ f_result' = all
                                     /\ f_events' = f_events \o
                                            <<"request", "cache_set">>
                                     /\ cache_set(kind_of(f_fn), f_ticker, all)
    /\ UNCHANGED <<f_fn, f_ticker, f_start, f_end, f_limit, f_cache0>>
    /\ UNCHANGED <<llmVars, mergeVars, defaultVars, extractVars, agentVars, handleVars, raceVars, tableVars, progressVars>>

NextFetch == fetch_call \/ fetch_request

SpecFetch == InitFetch /\ [][NextFetch]_vars


\* C19: every fetch function of the fetch layer (get_prices,
\* get_financial_metrics, search_line_items, get_insider_trades,
\* get_company_news) consults the merge cache for the ticker before it
\* performs any network request.
C19_CacheBeforeNetwork ==
    \A i \in 1..Len(f_events) :
        f_events[i] = "request" =>
            \E j \in 1..(i - 1) : f_events[j] = "cache_get"

\* C19 as the code has it: get_prices, get_financial_metrics,
\* get_insider_trades and get_company_news read the ticker's bucket before
\* any network request; search_line_items never reads or writes the cache,
\* and every call of it that ends has made a network request.
C19_CachedFetchesReadCacheFirst ==
    /\ f_fn \in FetchFunctions \ {"search_line_items"} =>
          /\ C19_CacheBeforeNetwork
          /\ f_pc \notin {"idle", "call"} =>
                /\ f_events /= << >>
                /\ Head(f_events) = "cache_get"
                /\ lastGet.kind = kind_of(f_fn)
                /\ lastGet.ticker = f_ticker
    /\ f_fn = "search_line_items" =>
          /\ \A i \in 1..Len(f_events) : f_events[i] = "request"
          /\ cache = f_cache0
          /\ nGets = 0
          /\ f_pc \in {"returned", "raised"} => f_events /= << >>

\* a paginated fetch found records in the bucket, none of them in the
\* window asked for, and went on to two requests
C19_Witness ==
    /\ f_fn \in Paginated
    /\ lastGet.result.present
    /\ lastGet.result.items /= << >>
    /\ f_events = <<"cache_get", "request", "request">>

\* C20: when the upstream API answers a fetch with a non-200 status, the
\* fetch function raises an error to its caller and no bucket of the cache
\* has been modified by that call, including when the failure happens on a
\* later page of a paginated fetch.
C20_Non200RaisesCacheUntouched ==
    (f_status /= 0 /\ f_status /= 200) =>
        /\ f_pc = "raised"
        /\ cache = f_cache0
        /\ f_events[Len(f_events)] = "request"

\* the second request of a paginated fetch was answered with status 500
\* after the first page had brought records
C20_Witness ==
    /\ f_fn \in Paginated
    /\ f_pc = "raised"
    /\ f_status = 500
    /\ f_all /= << >>
    /\ NumRequests = 2


\* C21: after a fetch of kind price, financial-metric, insider-trade or
\* company-news for a ticker obtains at least one record from the API and
\* returns, the bucket of that kind and ticker exists and contains a record
\* for every identity value the API returned; a fetch that obtains no
\* record creates no bucket entry.
C21_FetchedRecordsAreCached ==
    (/\ f_pc = "returned"
     /\ f_fn \in FetchFunctions \ {"search_line_items"}
     /\ NumRequests > 0) =>
        LET key    == key_field_of(kind_of(f_fn))
            bucket == Bucket(kind_of(f_fn), f_ticker)
        IN  IF f_all /= << >>
            THEN /\ bucket.present
                 /\ \A i \in 1..Len(f_all) :
                       \E j \in 1..Len(bucket.items) :
                           bucket.items[j][key] = f_all[i][key]
            ELSE \A k \in Kinds : DOMAIN cache[k] = DOMAIN f_cache0[k]

\* two pages of records were merged into a bucket that held records from
\* an earlier fetch
C21_Witness ==
    /\ f_pc = "returned"
    /\ f_fn \in Paginated
    /\ NumRequests = 2
    /\ f_all /= << >>
    /\ Bucket(kind_of(f_fn), f_ticker).present
    /\ f_ticker \in DOMAIN f_cache0[kind_of(f_fn)]
    /\ f_cache0[kind_of(f_fn)][f_ticker] /= << >>
    /\ Len(Bucket(kind_of(f_fn), f_ticker).items)
          > Len(f_cache0[kind_of(f_fn)][f_ticker])


\* the identity field the description gives for each kind
IdentityField ==
    [prices |-> "time", financial_metrics |-> "report_period",
     line_items |-> "report_period", insider_trades |-> "filing_date",
     company_news |-> "date"]

\* C22: each kind's set operation de-duplicates on that kind's identity
\* field (time for prices, report_period for financial metrics and for line
\* items, filing_date for insider trades, date for company news): a set
\* that returns on a bucket holding records reads that field of every
\* stored and incoming record, and appends exactly the incoming records
\* whose value of that field is not stored.
C22_SetDeduplicatesOnIdentityField ==
    ( /\ lastSet.kind \in Kinds
      /\ ~lastSet.raised
      /\ lastSet.before.items /= << >> )
    => LET f == IdentityField[lastSet.kind]
       IN  /\ AllHaveKey(lastSet.before.items, f)
           /\ AllHaveKey(lastSet.data, f)
           /\ Bucket(lastSet.kind, lastSet.ticker).items =
                 lastSet.before.items
                 \o NotStored(lastSet.data, KeysOf(lastSet.before.items, f), f)

\* an insider-trades bucket holds filing_date 1; a set with filing_date 1
\* (another payload) and filing_date 2 has added only the second record
C22_Witness ==
    /\ lastSet.kind = "insider_trades"
    /\ ~lastSet.raised
    /\ lastSet.before.items = <<Item("filing_date", 1, 1)>>
    /\ lastSet.data = <<Item("filing_date", 1, 2), Item("filing_date", 2, 1)>>
    /\ Bucket("insider_trades", lastSet.ticker).items =
          <<Item("filing_date", 1, 1), Item("filing_date", 2, 1)>>


-----------------------------------------------------------------------------
(* get_cache and the handles the callers hold (SpecHandles)                *)

MaxHandles == 2

\* get_cache makes a new Cache on every call
get_cache_new_instance == Len(handles) + 2

\* get_cache(): "return _cache"
get_cache == cache_global

\* the buckets of an instance; an instance nobody wrote to is empty
HeapAt(id) == IF id \in DOMAIN heap THEN heap[id] ELSE EmptyCache

\* a caller binds a name to get_cache(), as src/tools/api.py does at line 22
call_get_cache ==
    /\ Len(handles) < MaxHandles
    /\ handles' = Append(handles, get_cache)
    /\ UNCHANGED <<heap, cache_global, h_written, h_writer, h_last, h_ops>>
    /\ UNCHANGED <<llmVars, cacheVars, mergeVars, defaultVars, extractVars,
                   agentVars, fetchVars, raceVars, tableVars, progressVars>>

HandleKinds == {"prices", "insider_trades"}

\* handle.set_<kind>(ticker, data) through the i-th handle
handle_set ==
    \E i \in DOMAIN handles, kind \in HandleKinds, ticker \in Tickers :
    \E data \in DataLists(kind) :
        LET id       == handles[i]
            existing == dict_get(HeapAt(id)[kind], ticker)
            m        == merge_data(existing, data, key_field_of(kind))
            buckets  == [t \in DOMAIN HeapAt(id)[kind] \cup {ticker} |->
                            IF t = ticker THEN m.val ELSE HeapAt(id)[kind][t]]
        IN  /\ h_ops < MaxSets
            /\ h_ops' = h_ops + 1
            /\ IF m.raised
               THEN UNCHANGED <<heap, h_written, h_writer>>
               ELSE /\ heap' = [j \in DOMAIN heap \cup {id} |->
                                  IF j = id
                                  THEN [HeapAt(id) EXCEPT ![kind] = buckets]
                                  ELSE heap[j]]
                    /\ h_written' =
                          [kt \in DOMAIN h_written \cup {<<kind, ticker>>} |->
                              IF kt = <<kind, ticker>> THEN m.val
                              ELSE h_written[kt]]
                    /\ h_writer' = i
            /\ UNCHANGED <<cache_global, handles, h_last>>
            /\ UNCHANGED <<llmVars, cacheVars, mergeVars, defaultVars,
                           extractVars, agentVars, fetchVars, raceVars, tableVars, progressVars>>

\* handle.get_<kind>(ticker) through the i-th handle
handle_get ==
    \E i \in DOMAIN handles, kind \in HandleKinds, ticker \in Tickers :
        /\ h_ops < MaxSets
        /\ h_ops' = h_ops + 1
        /\ h_last' = [handle |-> i, kind |-> kind, ticker |-> ticker,
                      result |-> dict_get(HeapAt(handles[i])[kind], ticker)]
        /\ UNCHANGED <<heap, cache_global, handles, h_written, h_writer>>
        /\ UNCHANGED <<llmVars, cacheVars, mergeVars, defaultVars,
                       extractVars, agentVars, fetchVars, raceVars, tableVars, progressVars>>

InitHandles ==
    /\ InitLLMIdle /\ InitCacheIdle /\ InitMergeIdle
    /\ InitDefaultIdle /\ InitExtractIdle /\ InitAgentIdle /\ InitFetchIdle
    /\ InitHandlesIdle /\ InitRaceIdle /\ InitTableIdle /\ InitProgressIdle

NextHandles == call_get_cache \/ handle_set \/ handle_get

SpecHandles == InitHandles /\ [][NextHandles]_vars

\* C23: every call of get_cache returns the same Cache instance, so a get
\* through any handle returns the bucket as the last set on that kind and
\* ticker, through whichever handle, left it.
C23_OneSharedCache ==
    [][ /\ \A i, j \in DOMAIN handles' : handles'[i] = handles'[j]
        /\ ( /\ h_last' /= h_last
             /\ <<h_last'.kind, h_last'.ticker>> \in DOMAIN h_written )
           => h_last'.result =
                 [present |-> TRUE,
                  items |-> h_written[<<h_last'.kind, h_last'.ticker>>]]
      ]_vars

\* records were stored through the first handle and read back through the
\* second one
C23_Witness ==
    /\ Len(handles) = 2
    /\ h_writer = 1
    /\ h_last.handle = 2
    /\ h_last.result.present
    /\ h_last.result.items /= << >>


-----------------------------------------------------------------------------
(* Two unsynchronised set calls on the same kind and ticker (SpecRace)     *)

\* the first half of the statement at cache.py 83-87: the argument
\* self._<kind>_cache.get(ticker) is evaluated and _merge_data runs on it
set_read(c) ==
    LET m == merge_data(r_bucket, r_data[c], key_field_of(r_kind))
    IN  /\ r_pc[c] = "read"
        /\ r_pc' = [r_pc EXCEPT ![c] = IF m.raised THEN "raised" ELSE "write"]
        /\ r_merged' = [r_merged EXCEPT ![c] = m.val]
        /\ r_overlap' = (r_overlap \/ \E o \in Callers \ {c} : r_pc[o] = "write")
        /\ UNCHANGED <<r_kind, r_bucket, r_data>>
        /\ UNCHANGED <<llmVars, cacheVars, mergeVars, defaultVars, extractVars,
                       agentVars, fetchVars, handleVars, tableVars, progressVars>>

\* the second half: the subscript assignment stores the merged list
set_write(c) ==
    /\ r_pc[c] = "write"
    /\ r_bucket' = [present |-> TRUE, items |-> r_merged[c]]
    /\ r_pc' = [r_pc EXCEPT ![c] = "done"]
    /\ UNCHANGED <<r_kind, r_data, r_merged, r_overlap>>
    /\ UNCHANGED <<llmVars, cacheVars, mergeVars, defaultVars, extractVars,
                   agentVars, fetchVars, handleVars, tableVars, progressVars>>

InitRace ==
    /\ InitLLMIdle /\ InitCacheIdle /\ InitMergeIdle
    /\ InitDefaultIdle /\ InitExtractIdle /\ InitAgentIdle /\ InitFetchIdle
    /\ InitHandlesIdle /\ InitTableIdle /\ InitProgressIdle
    /\ r_kind \in Kinds
    /\ r_bucket \in {Absent} \cup
           {[present |-> TRUE, items |-> l] :
               l \in {<< >>, <<Item(key_field_of(r_kind), 1, 1)>>}}
    /\ r_data \in [Callers -> DataLists(r_kind)]
    /\ r_pc = [c \in Callers |-> "read"]
    /\ r_merged = [c \in Callers |-> << >>]
    /\ r_overlap = FALSE

NextRace == \E c \in Callers : set_read(c) \/ set_write(c)

SpecRace == InitRace /\ [][NextRace]_vars

\* the identity values of the records of seq that carry the field key
IdentitiesOf(seq, key) ==
    {seq[i][key] : i \in {j \in 1..Len(seq) : HasKey(seq[j], key)}}

\* C24: set is a non-atomic read-merge-write.  Under every serial execution
\* of two set calls on the same kind and ticker (neither reads the bucket
\* while the other is between its read and its write) the final bucket
\* holds a record for every identity value of both calls; a bucket that
\* misses records of one call arises only from an interleaved execution.
C24_SerialSetsKeepBothCalls ==
    ( /\ \A c \in Callers : r_pc[c] = "done"
      /\ ~r_overlap )
    => \A c \in Callers :
          IdentitiesOf(r_data[c], key_field_of(r_kind))
             \subseteq IdentitiesOf(r_bucket.items, key_field_of(r_kind))

\* both calls have returned after interleaving, and the bucket holds no
\* record for an identity value that one of them passed
C24_Witness ==
    /\ \A c \in Callers : r_pc[c] = "done"
    /\ r_overlap
    /\ \E c \in Callers :
          ~(IdentitiesOf(r_data[c], key_field_of(r_kind))
               \subseteq IdentitiesOf(r_bucket.items, key_field_of(r_kind)))


-----------------------------------------------------------------------------
(* Claims about the mode of an invocation (SpecLLM)                        *)

\* C25: call_llm uses non-structured mode (backend invoked directly, raw
\* text post-processed by JSON extraction) exactly when the model name
\* denotes a deepseek-family backend, and structured mode otherwise; the
\* mode is chosen once and is the same for every attempt.
C25_ModeFollowsModelFamily ==
    [][ /\ llm' \in {"structured", "raw"}
           => (llm' = "raw" <=> startswith_deepseek(model_name'))
        /\ llm \in {"structured", "raw"} => llm' = llm
        /\ \A i \in 1..Len(invLog') :
              (invLog'[i].outcome = "fell_through") => llm' = "raw"
      ]_vars


-----------------------------------------------------------------------------
(* Claims about get_prices and about pagination (SpecFetch)                *)

\* the records span the range: one is dated at or before start, one at or
\* after end
CoversRange(items, key, start, end) ==
    /\ \E i \in 1..Len(items) : items[i][key] <= start
    /\ \E i \in 1..Len(items) : items[i][key] >= end

\* C26: get_prices returns records from the cache without a network
\* request only when the cached records for the ticker cover the requested
\* range from start_date to end_date; otherwise it fetches from the API.
C26_CacheHitOnlyWhenRangeCovered ==
    ( /\ f_fn = "get_prices"
      /\ f_pc = "returned"
      /\ NumRequests = 0 )
    => /\ f_ticker \in DOMAIN f_cache0["prices"]
       /\ CoversRange(f_cache0["prices"][f_ticker], "time", f_start, f_end)


\* C27: the pagination loops of get_insider_trades and get_company_news
\* terminate because each further request uses an end date strictly
\* earlier than the previous one: when the loop is about to send its
\* (n+1)-th request, the end date has moved back by at least n dates.
C27_EndDateStrictlyDecreases ==
    ( /\ f_fn \in Paginated
      /\ f_pc = "request" )
    => f_cur_end + NumRequests <= f_end


-----------------------------------------------------------------------------
(* The analyst-signals table of print_trading_output (SpecTable)           *)

\* ANALYST_CONFIG, in the order the dictionary literal lists its entries
ANALYST_CONFIG ==
    << [key |-> "ben_graham",           display_name |-> "Ben Graham",           order |-> 0],
       [key |-> "bill_ackman",          display_name |-> "Bill Ackman",          order |-> 1],
       [key |-> "cathie_wood",          display_name |-> "Cathie Wood",          order |-> 2],
       [key |-> "charlie_munger",       display_name |-> "Charlie Munger",       order |-> 3],
       [key |-> "warren_buffett",       display_name |-> "Warren Buffett",       order |-> 5],
       [key |-> "technical_analyst",    display_name |-> "Technical Analyst",    order |-> 4],
       [key |-> "fundamentals_analyst", display_name |-> "Fundamentals Analyst", order |-> 7],
       [key |-> "sentiment_analyst",    display_name |-> "Sentiment Analyst",    order |-> 8],
       [key |-> "valuation_analyst",    display_name |-> "Valuation Analyst",    order |-> 9] >>

\* sorted(seq, key=...): a stable sort, smallest key first; keys[i] is the
\* key of seq[i]
sorted(seq, keys) ==
    LET pos(i) == 1 + Cardinality({j \in 1..Len(seq) :
                          \/ keys[j] < keys[i]
                          \/ keys[j] = keys[i] /\ j < i})
    IN  [p \in 1..Len(seq) |-> seq[CHOOSE i \in 1..Len(seq) : pos(i) = p]]

\* ANALYST_ORDER: the display names, sorted by the order field
ANALYST_ORDER ==
    LET s == sorted(ANALYST_CONFIG,
                    [i \in 1..Len(ANALYST_CONFIG) |-> ANALYST_CONFIG[i].order])
    IN  [i \in 1..Len(s) |-> s[i].display_name]

\* a string is the sequence of its pieces; an f-string that wraps a text
\* in a colour puts the escape codes around it
plain(text) == <<text>>
coloured(colour, text) == <<colour, text, "Style.RESET_ALL">>

\* agent.replace("_agent", "").replace("_", " ").title()
agent_display_name(agent) ==
    CASE agent = "ben_graham_agent"        -> "Ben Graham"
      [] agent = "warren_buffett_agent"    -> "Warren Buffett"
      [] agent = "technical_analyst_agent" -> "Technical Analyst"
      [] agent = "risk_management_agent"   -> "Risk Management"

AgentKeys ==
    {"ben_graham_agent", "warren_buffett_agent", "technical_analyst_agent",
     "risk_management_agent"}

UnknownOrder == 999

\* analyst_order.get(x[0], 999), with analyst_order as lines 21-24 build it
analyst_order_get(cell) ==
    IF \E idx \in 1..Len(ANALYST_ORDER) : plain(ANALYST_ORDER[idx]) = cell
    THEN (CHOOSE idx \in 1..Len(ANALYST_ORDER) :
              plain(ANALYST_ORDER[idx]) = cell) - 1
    ELSE IF cell = plain("Risk Management") THEN Len(ANALYST_ORDER)
    ELSE UnknownOrder

sort_analyst_signals(signals) ==
    sorted(signals,
           [i \in 1..Len(signals) |-> analyst_order_get(signals[i][1])])

\* one iteration of the loop of lines 56-86
append_row ==
    /\ t_pc = "rows"
    /\ t_i <= Len(t_signals)
    /\ t_i' = t_i + 1
    /\ table_data' =
          IF ~t_signals[t_i].has_ticker
          THEN table_data
          ELSE Append(table_data,
                      <<coloured("Fore.CYAN", agent_display_name(t_signals[t_i].agent)),
                        coloured("Fore.YELLOW", "NEUTRAL"),
                        coloured("Fore.YELLOW", "50%")>>)
    /\ UNCHANGED <<t_signals, t_pc>>
    /\ UNCHANGED <<llmVars, cacheVars, mergeVars, defaultVars, extractVars,
                   agentVars, fetchVars, handleVars, raceVars, progressVars>>

\* lines 89-100: the table is sorted and printed
sort_table ==
    /\ t_pc = "rows"
    /\ t_i > Len(t_signals)
    /\ table_data' = sort_analyst_signals(table_data)
    /\ t_pc' = "printed"
    /\ UNCHANGED <<t_signals, t_i>>
    /\ UNCHANGED <<llmVars, cacheVars, mergeVars, defaultVars, extractVars,
                   agentVars, fetchVars, handleVars, raceVars, progressVars>>

\* the mappings: any agents, in any insertion order, each with or without
\* an entry for the ticker
SignalMappings ==
    {m \in UNION {[1..n -> [agent : AgentKeys, has_ticker : BOOLEAN]] :
                     n \in 0..Cardinality(AgentKeys)} :
        \A i, j \in 1..Len(m) : i /= j => m[i].agent /= m[j].agent}

InitTable ==
    /\ InitLLMIdle /\ InitCacheIdle /\ InitMergeIdle
    /\ InitDefaultIdle /\ InitExtractIdle /\ InitAgentIdle /\ InitFetchIdle
    /\ InitHandlesIdle /\ InitRaceIdle /\ InitProgressIdle
    /\ t_signals \in SignalMappings
    /\ t_i = 1
    /\ table_data = << >>
    /\ t_pc = "rows"

NextTable == append_row \/ sort_table

SpecTable == InitTable /\ [][NextTable]_vars

\* the place of a display name in the intended order: its index in
\* ANALYST_ORDER, Risk Management after all analysts
PlaceOf(name) ==
    IF \E idx \in 1..Len(ANALYST_ORDER) : ANALYST_ORDER[idx] = name
    THEN CHOOSE idx \in 1..Len(ANALYST_ORDER) : ANALYST_ORDER[idx] = name
    ELSE Len(ANALYST_ORDER) + 1

\* C28: in the analyst-signals table built by print_trading_output the rows
\* appear in the order given by ANALYST_ORDER, with Risk Management after
\* all analysts, whatever the iteration order of the analyst_signals
\* mapping.
C28_RowsInAnalystOrder ==
    t_pc = "printed" =>
        \A i, j \in 1..Len(table_data) :
            i < j => PlaceOf(table_data[i][1][2]) < PlaceOf(table_data[j][1][2])


-----------------------------------------------------------------------------
(* The frame of a set (SpecCache)                                          *)

\* C29: a set on one kind and ticker changes only that kind's bucket for
\* exactly that (case-sensitive) ticker: the buckets of all other tickers
\* and of all other kinds are unchanged.
C29_SetChangesOneBucket ==
    [][ nSets' = nSets + 1 =>
          \A k \in Kinds :
          \A t \in DOMAIN cache[k] \cup DOMAIN cache'[k] \cup Tickers :
              (k /= lastSet'.kind \/ t /= lastSet'.ticker)
              => dict_get(cache'[k], t) = dict_get(cache[k], t)
      ]_vars

\* records were stored for "aapl", then other records for "AAPL" of the
\* same kind: both buckets exist and differ
C29_Witness ==
    /\ lastSet.kind = "prices"
    /\ lastSet.ticker = "AAPL"
    /\ ~lastSet.raised
    /\ lastSet.data /= << >>
    /\ "aapl" \in DOMAIN cache["prices"]
    /\ cache["prices"]["aapl"] /= << >>
    /\ cache["prices"]["aapl"] /= cache["prices"]["AAPL"]


-----------------------------------------------------------------------------
(* Calls of AgentProgress.update_status (SpecProgress)                     *)

MaxCalls == 3

\* progress.update_status(agent, ticker, status), as the agents call it with
\* a ticker and as call_llm calls it (line 85) with ticker None
\* The arguments: two agents; None, the empty string and two tickers; no
\* status, a progress text of an agent, and the retry report of call_llm.
call_update_status ==
    \E agent \in {"warren_buffett_agent", "ben_graham_agent"},
       ticker \in {"None", "", "AAPL", "MSFT"},
       status \in {"", "Done", retry_message(1, DefaultMaxRetries)} :
        /\ p_calls < MaxCalls
        /\ p_calls' = p_calls + 1
        /\ p_last' = [agent |-> agent, ticker |-> ticker, status |-> status,
                      before |-> agent_status]
        /\ agent_status' = update_status(agent_status, agent, ticker, status)
        /\ UNCHANGED <<model_name, model_provider, api_key, pydantic_model,
                       agent_name, max_retries, default_factory,
                       status_callback, pc, llm, attempt, result, invLog,
                       statusLog>>
        /\ UNCHANGED <<cacheVars, mergeVars, defaultVars, extractVars,
                       agentVars, fetchVars, handleVars, raceVars, tableVars>>

InitProgress ==
    /\ InitLLMIdle /\ InitCacheIdle /\ InitMergeIdle
    /\ InitDefaultIdle /\ InitExtractIdle /\ InitAgentIdle /\ InitFetchIdle
    /\ InitHandlesIdle /\ InitRaceIdle /\ InitTableIdle
    /\ InitProgressIdle

NextProgress == call_update_status

SpecProgress == InitProgress /\ [][NextProgress]_vars

\* C30: update_status(agent, ticker, status) creates the agent's entry if
\* it is missing, replaces the stored ticker only when a ticker is given
\* and the stored status only when a non-empty status is given, and leaves
\* the entries of all other agents unchanged; a retry report of call_llm
\* (ticker None) keeps the ticker the agent was last working on.
C30_UpdateStatusFrame ==
    p_last.agent /= "none" =>
        LET g   == p_last.agent
            b   == p_last.before
            old == IF g \in DOMAIN b THEN b[g]
                   ELSE [status |-> "", ticker |-> "None"]
        IN  /\ DOMAIN agent_status = DOMAIN b \cup {g}
            /\ \A o \in DOMAIN b \ {g} : agent_status[o] = b[o]
            /\ agent_status[g].ticker =
                  (IF p_last.ticker \in {"None", ""}
                   THEN old.ticker ELSE p_last.ticker)
            /\ agent_status[g].status =
                  (IF p_last.status = "" THEN old.status ELSE p_last.status)

\* an agent working on AAPL, with another agent present, got the retry
\* report of call_llm and still shows AAPL
C30_Witness ==
    /\ p_last.agent = "warren_buffett_agent"
    /\ p_last.ticker = "None"
    /\ p_last.status = retry_message(1, DefaultMaxRetries)
    /\ "ben_graham_agent" \in DOMAIN p_last.before
    /\ "warren_buffett_agent" \in DOMAIN p_last.before
    /\ p_last.before["warren_buffett_agent"].ticker = "AAPL"
    /\ agent_status["warren_buffett_agent"].ticker = "AAPL"
    /\ agent_status["warren_buffett_agent"].status = p_last.status

=============================================================================
